---- MODULE Spec2Model ----
(***************************************************************************)
(* A model of the block file system of src/fs.c: one disk image, the       *)
(* in-memory superblock, block bitmap and inode table, and the operations  *)
(* fs_format, fs_mount, fs_unmount, fs_create, fs_delete, fs_list,         *)
(* fs_write and fs_read.                                                   *)
(*                                                                         *)
(* The geometry of fs.h (MAX_FILES, MAX_BLOCKS, BLOCK_SIZE,                *)
(* MAX_DIRECT_BLOCKS) is scaled down; the relations the code relies on are *)
(* kept: MAX_DIRECT_BLOCKS < MAX_FILES, so that fs_write's size check      *)
(* (size <= MAX_FILES * BLOCK_SIZE) accepts sizes that need more than      *)
(* MAX_DIRECT_BLOCKS blocks, and MAX_BLOCKS > 10.                          *)
(***************************************************************************)
EXTENDS Integers, Sequences, FiniteSets

\* ------------------------------------------------------------- geometry
MAX_FILES == 3
MAX_DIRECT_BLOCKS == 2
BLOCK_SIZE == 2
MAX_BLOCKS == 14
\* blocks 0..9 hold the superblock, the bitmap and the inode table
RESERVED == 10

\* ---------------------------------------------------------------- inputs
\* file names are 0 .. NumNames-1; name 0 is the empty string ""
NumNames == 4
NumPatterns == 2
Names == 0 .. (NumNames - 1)
EmptyName == 0
\* a null pointer passed as name / data / buffer
NULL == -1
\* a name with strlen(name) >= MAX_FILENAME
LongName == -2
NameArgs == Names \cup {NULL, LongName}
Patterns == 1 .. NumPatterns
MaxAccepted == MAX_FILES * BLOCK_SIZE
MaxFileSize == MAX_DIRECT_BLOCKS * BLOCK_SIZE
\* every size an argument can take: negative, zero, each accepted size, too big
Sizes == (-1) .. (MaxAccepted + 1)
\* the calls made between two observed states change the state at most
\* MaxSteps times in all
MaxSteps == 8

\* byte j (1-based) of the caller's data buffer filled with pattern d;
\* 0 is the zero byte of padding and of a formatted disk
ByteOf(d, j) == (d - 1) * (MaxAccepted + 1) + j
DataOf(d, size) == [j \in 1 .. size |-> ByteOf(d, j)]

VARIABLES
    disk_fd,        \* -1, or the descriptor of the mounted image
    sb,             \* in-memory superblock
    block_bitmap,   \* in-memory bitmap: block index -> used?
    inode_table,    \* in-memory inode table
    disk_exists,    \* the image file exists
    disk_len,       \* the metadata regions the image file is long enough to hold
    disk_sb,        \* block 0 of the image
    disk_bitmap,    \* block 1 of the image
    disk_inodes,    \* blocks 2..9 of the image
    disk_data,      \* blocks 10.. of the image
    steps,          \* how many calls have changed the state so far
    deleted         \* names deleted by fs_delete and not created again since

vars == <<disk_fd, sb, block_bitmap, inode_table, disk_exists, disk_len, disk_sb,
          disk_bitmap, disk_inodes, disk_data, steps, deleted>>

FD == 3
\* what fs_mount reads, in this order: sizeof(sb) bytes at offset 0, BLOCK_SIZE
\* bytes at block 1, sizeof(inode_table) bytes at block 2
Regions == {"sb", "bitmap", "inodes"}
Slots == 0 .. (MAX_FILES - 1)
BlockSlots == 0 .. (MAX_DIRECT_BLOCKS - 1)
Blocks == 0 .. (MAX_BLOCKS - 1)
DataBlocks == RESERVED .. (MAX_BLOCKS - 1)

Min(a, b) == IF a < b THEN a ELSE b

\* ------------------------------------------------------------ structures
\* struct inode: used, name, size, blocks[MAX_DIRECT_BLOCKS]
ZeroInode == [used |-> 0, name |-> EmptyName, size |-> 0,
              blocks |-> [j \in BlockSlots |-> 0]]
ZeroSb == [total_blocks |-> 0, block_size |-> 0, free_blocks |-> 0,
           total_inodes |-> 0, free_inodes |-> 0]
FreshSb == [total_blocks |-> MAX_BLOCKS, block_size |-> BLOCK_SIZE,
            free_blocks |-> MAX_BLOCKS - RESERVED,
            total_inodes |-> MAX_FILES, free_inodes |-> MAX_FILES]
FreshBitmap == [b \in Blocks |-> b < RESERVED]
FreshTable == [i \in Slots |-> ZeroInode]
ZeroBlock == [j \in 1 .. BLOCK_SIZE |-> 0]
ZeroData == [b \in DataBlocks |-> ZeroBlock]

\* ---------------------------------------------------------------- helpers
\* find_inode without the test of the used flag
FindInodeAnySlot(tbl, name) ==
    LET hits == {i \in Slots : tbl[i].name = name}
    IN IF hits = {} THEN -1 ELSE CHOOSE i \in hits : \A k \in hits : i <= k

FindInode(tbl, name) ==
    LET hits == {i \in Slots : tbl[i].used # 0 /\ tbl[i].name = name}
    IN IF hits = {} THEN -1 ELSE CHOOSE i \in hits : \A k \in hits : i <= k

\* find_free_inode scanning from the last slot downwards
FindFreeInodeLast(tbl) ==
    LET hits == {i \in Slots : tbl[i].used = 0}
    IN IF hits = {} THEN -1 ELSE CHOOSE i \in hits : \A k \in hits : i >= k

\* find_free_inode with the loop bound one short: the last slot is never found
FindFreeInodeShort(tbl) ==
    LET hits == {i \in Slots : i < MAX_FILES - 1 /\ tbl[i].used = 0}
    IN IF hits = {} THEN -1 ELSE CHOOSE i \in hits : \A k \in hits : i <= k

FindFreeInode(tbl) ==
    LET hits == {i \in Slots : tbl[i].used = 0}
    IN IF hits = {} THEN -1 ELSE CHOOSE i \in hits : \A k \in hits : i <= k

\* find_free_block scanning downward from the last block
FindFreeBlockHighest(bm) ==
    LET hits == {b \in DataBlocks : ~bm[b]}
    IN IF hits = {} THEN -1 ELSE CHOOSE b \in hits : \A k \in hits : b >= k

FindFreeBlock(bm) ==
    LET hits == {b \in DataBlocks : ~bm[b]}
    IN IF hits = {} THEN -1 ELSE CHOOSE b \in hits : \A k \in hits : b <= k

MarkBlockUsed(bm, b) ==
    IF b \in DOMAIN bm THEN [bm EXCEPT ![b] = TRUE] ELSE bm

MarkBlockFree(bm, b) ==
    IF b \in DOMAIN bm THEN [bm EXCEPT ![b] = FALSE] ELSE bm

\* The whole state as one record, so that an operation is a function from
\* state to state: fd, sb, bm, tbl are the globals of fs.c, the d* fields the
\* image file.
Cur ==
    [fd |-> disk_fd, sb |-> sb, bm |-> block_bitmap, tbl |-> inode_table,
     dexists |-> disk_exists, dlen |-> disk_len, dsb |-> disk_sb, dbm |-> disk_bitmap,
     dtbl |-> disk_inodes, data |-> disk_data]

\* the globals of a process that has called nothing yet, and no image file
Boot ==
    [fd |-> -1, sb |-> ZeroSb, bm |-> [b \in Blocks |-> FALSE],
     tbl |-> FreshTable, dexists |-> FALSE, dlen |-> {}, dsb |-> ZeroSb,
     dbm |-> [b \in Blocks |-> FALSE], dtbl |-> FreshTable, data |-> ZeroData]

Becomes(s) ==
    /\ disk_fd' = s.fd
    /\ sb' = s.sb
    /\ block_bitmap' = s.bm
    /\ inode_table' = s.tbl
    /\ disk_exists' = s.dexists
    /\ disk_len' = s.dlen
    /\ disk_sb' = s.dsb
    /\ disk_bitmap' = s.dbm
    /\ disk_inodes' = s.dtbl
    /\ disk_data' = s.data
    /\ s # Cur => steps < MaxSteps
    /\ steps' = IF s # Cur THEN steps + 1 ELSE steps

\* ------------------------------------------------------ format / mount
\* fs_format: openOk is whether open(disk_path, O_RDWR|O_CREAT|O_TRUNC) succeeds.
\* sb, block_bitmap and inode_table are the globals the function initialises
\* before it writes them out; disk_fd is not touched.
FormatRet(openOk) == IF openOk THEN 0 ELSE -1

\* fs_format that also drops the mounted handle
FormatUnmounts(s, openOk) ==
    IF ~openOk THEN s
    ELSE [s EXCEPT !.sb = FreshSb, !.bm = FreshBitmap, !.tbl = FreshTable,
                   !.dexists = TRUE, !.dlen = Regions, !.dsb = FreshSb, !.dbm = FreshBitmap,
                   !.dtbl = FreshTable, !.data = ZeroData, !.fd = -1]

\* fs_format without the initialisation of the inode table
FormatKeepsInodes(s, openOk) ==
    IF ~openOk THEN s
    ELSE [s EXCEPT !.sb = FreshSb, !.bm = FreshBitmap,
                   !.dexists = TRUE, !.dlen = Regions, !.dsb = FreshSb, !.dbm = FreshBitmap,
                   !.dtbl = s.tbl, !.data = ZeroData]

FormatR(s, openOk) ==
    IF ~openOk THEN s
    ELSE [s EXCEPT !.sb = FreshSb, !.bm = FreshBitmap, !.tbl = FreshTable,
                   !.dexists = TRUE, !.dlen = Regions, !.dsb = FreshSb, !.dbm = FreshBitmap,
                   !.dtbl = FreshTable, !.data = ZeroData]

SbValid(x) ==
    /\ x.total_blocks = MAX_BLOCKS
    /\ x.block_size = BLOCK_SIZE
    /\ x.total_inodes = MAX_FILES

MountRet(s) ==
    IF s.fd # -1 THEN -1
    ELSE IF ~s.dexists THEN -1
    ELSE IF "sb" \notin s.dlen THEN -1
    ELSE IF ~SbValid(s.dsb) THEN -1
    ELSE IF "bitmap" \notin s.dlen THEN -1
    ELSE IF "inodes" \notin s.dlen THEN -1
    ELSE 0

\* fs_mount without the "already mounted" check: it reads the image again
MountReload(s) ==
    IF ~s.dexists THEN s
    ELSE IF "sb" \notin s.dlen THEN [s EXCEPT !.fd = -1]
    ELSE IF ~SbValid(s.dsb) THEN [s EXCEPT !.sb = s.dsb, !.fd = -1]
    ELSE IF "bitmap" \notin s.dlen THEN [s EXCEPT !.sb = s.dsb, !.fd = -1]
    ELSE IF "inodes" \notin s.dlen THEN [s EXCEPT !.sb = s.dsb, !.bm = s.dbm, !.fd = -1]
    ELSE [s EXCEPT !.sb = s.dsb, !.bm = s.dbm, !.tbl = s.dtbl, !.fd = FD]

\* fs_mount that recomputes the two counters from the bitmap and the table
MountRecounts(s) ==
    IF s.fd # -1 \/ ~s.dexists THEN s
    ELSE IF "sb" \notin s.dlen THEN s
    ELSE IF ~SbValid(s.dsb) THEN [s EXCEPT !.sb = s.dsb]
    ELSE IF "bitmap" \notin s.dlen THEN [s EXCEPT !.sb = s.dsb]
    ELSE IF "inodes" \notin s.dlen THEN [s EXCEPT !.sb = s.dsb, !.bm = s.dbm]
    ELSE [s EXCEPT !.sb = [s.dsb EXCEPT
                              !.free_blocks = Cardinality({b \in DataBlocks : ~s.dbm[b]}),
                              !.free_inodes = Cardinality({i \in Slots : s.dtbl[i].used = 0})],
                   !.bm = s.dbm, !.tbl = s.dtbl, !.fd = FD]

\* fs_mount that forgets to give up the handle when the superblock is rejected
MountKeepsBadHandle(s) ==
    IF s.fd # -1 \/ ~s.dexists THEN s
    ELSE IF "sb" \notin s.dlen THEN s
    ELSE IF ~SbValid(s.dsb) THEN [s EXCEPT !.sb = s.dsb, !.fd = FD]
    ELSE IF "bitmap" \notin s.dlen THEN [s EXCEPT !.sb = s.dsb]
    ELSE IF "inodes" \notin s.dlen THEN [s EXCEPT !.sb = s.dsb, !.bm = s.dbm]
    ELSE [s EXCEPT !.sb = s.dsb, !.bm = s.dbm, !.tbl = s.dtbl, !.fd = FD]

\* fs_mount.  open() fails on an absent path and its -1 is what disk_fd is
\* left with; each read that comes back short, and a superblock that fails the
\* validation, closes the descriptor and sets disk_fd = -1.  What was read
\* before the failure stays in the globals.  A file too short for a region is
\* one that ends where the region would begin: the short read delivers nothing.
MountR(s) ==
    IF s.fd # -1 \/ ~s.dexists THEN s
    ELSE IF "sb" \notin s.dlen THEN s
    ELSE IF ~SbValid(s.dsb) THEN [s EXCEPT !.sb = s.dsb]
    ELSE IF "bitmap" \notin s.dlen THEN [s EXCEPT !.sb = s.dsb]
    ELSE IF "inodes" \notin s.dlen THEN [s EXCEPT !.sb = s.dsb, !.bm = s.dbm]
    ELSE [s EXCEPT !.sb = s.dsb, !.bm = s.dbm, !.tbl = s.dtbl, !.fd = FD]

\* fs_unmount that writes everything back but keeps the handle
UnmountKeepsHandle(s) ==
    IF s.fd = -1 THEN s
    ELSE [s EXCEPT !.dsb = s.sb, !.dbm = s.bm, !.dtbl = s.tbl]

\* fs_unmount without the write-back of the inode table
UnmountNoInodes(s) ==
    IF s.fd = -1 THEN s
    ELSE [s EXCEPT !.dsb = s.sb, !.dbm = s.bm, !.fd = -1]

UnmountR(s) ==
    IF s.fd = -1 THEN s
    ELSE [s EXCEPT !.dsb = s.sb, !.dbm = s.bm, !.dtbl = s.tbl, !.fd = -1]

\* ------------------------------------------------------ create / delete
\* fs_create without the "not mounted" check
CreateRetNoMountCheck(s, name) ==
    IF name = NULL THEN -3
    ELSE IF name = LongName THEN -3
    ELSE IF FindInode(s.tbl, name) # -1 THEN -1
    ELSE IF FindFreeInode(s.tbl) = -1 THEN -2
    ELSE 0

\* fs_create that looks for a free slot before it looks for the name
CreateRetSlotFirst(s, name) ==
    IF s.fd = -1 THEN -3
    ELSE IF name = NULL THEN -3
    ELSE IF name = LongName THEN -3
    ELSE IF FindFreeInode(s.tbl) = -1 THEN -2
    ELSE IF FindInode(s.tbl, name) # -1 THEN -1
    ELSE 0

CreateRet(s, name) ==
    IF s.fd = -1 THEN -3
    ELSE IF name = NULL THEN -3
    ELSE IF name = LongName THEN -3
    ELSE IF FindInode(s.tbl, name) # -1 THEN -1
    ELSE IF FindFreeInode(s.tbl) = -1 THEN -2
    ELSE 0

NewInode(name) ==
    [used |-> 1, name |-> name, size |-> 0, blocks |-> [j \in BlockSlots |-> 0]]

\* fs_create that also writes the inode table and the superblock to the image
CreateWritesThrough(s, name) ==
    IF CreateRet(s, name) # 0 THEN s
    ELSE [s EXCEPT !.tbl[FindFreeInode(s.tbl)] = NewInode(name),
                   !.sb.free_inodes = @ - 1,
                   !.dtbl[FindFreeInode(s.tbl)] = NewInode(name),
                   !.dsb.free_inodes = s.sb.free_inodes - 1]

CreateR(s, name) ==
    IF CreateRet(s, name) # 0 THEN s
    ELSE [s EXCEPT !.tbl[FindFreeInode(s.tbl)] = NewInode(name),
                   !.sb.free_inodes = @ - 1]

DeleteRet(s, name) ==
    IF s.fd = -1 THEN -2
    ELSE IF name = NULL THEN -3
    ELSE IF name = LongName THEN -3
    ELSE IF FindInode(s.tbl, name) = -1 THEN -1
    ELSE 0

\* the blocks an inode points to and how many of its slots are non-zero
PointedBlocks(ino) == {ino.blocks[j] : j \in {k \in BlockSlots : ino.blocks[k] # 0}}
PointerCount(ino) == Cardinality({j \in BlockSlots : ino.blocks[j] # 0})

\* the loop "for each slot: if blocks[i] != 0: mark free, free_blocks++,
\* blocks[i] = 0", on the bitmap
ReleaseBitmap(bm, ino) ==
    [b \in DOMAIN bm |-> IF b \in PointedBlocks(ino) THEN FALSE ELSE bm[b]]

\* fs_delete that clears the inode but does not release its blocks
DeleteKeepsBlocks(s, name) ==
    IF DeleteRet(s, name) # 0 THEN s
    ELSE [s EXCEPT !.sb.free_inodes = @ + 1,
                   !.tbl[FindInode(s.tbl, name)] = ZeroInode]

DeleteR(s, name) ==
    IF DeleteRet(s, name) # 0 THEN s
    ELSE LET idx == FindInode(s.tbl, name)
         IN [s EXCEPT !.bm = ReleaseBitmap(@, s.tbl[idx]),
                      !.sb.free_blocks = @ + PointerCount(s.tbl[idx]),
                      !.sb.free_inodes = @ + 1,
                      !.tbl[idx] = ZeroInode]

\* ----------------------------------------------------------------- list
UsedSlots(tbl) == {i \in Slots : tbl[i].used # 0}

RECURSIVE ListLoop(_, _, _, _)
ListLoop(tbl, i, max, acc) ==
    IF i >= MAX_FILES \/ Len(acc) >= max THEN acc
    ELSE IF tbl[i].used # 0
         THEN ListLoop(tbl, i + 1, max, Append(acc, tbl[i].name))
         ELSE ListLoop(tbl, i + 1, max, acc)

\* fs_list without the bound count < max_files on its loop
ListNamesNoLimit(s, bufArg, max) ==
    IF s.fd = -1 \/ bufArg = NULL \/ max <= 0 \/ max > MAX_FILES THEN <<>>
    ELSE ListLoop(s.tbl, 0, MAX_FILES, <<>>)

ListNames(s, bufArg, max) ==
    IF s.fd = -1 \/ bufArg = NULL \/ max <= 0 \/ max > MAX_FILES THEN <<>>
    ELSE ListLoop(s.tbl, 0, max, <<>>)

\* fs_list that clamps a request larger than MAX_FILES instead of rejecting it
ListRetClamps(s, bufArg, max) ==
    IF s.fd = -1 \/ bufArg = NULL \/ max <= 0 THEN -1
    ELSE Len(ListLoop(s.tbl, 0, Min(max, MAX_FILES), <<>>))

ListRet(s, bufArg, max) ==
    IF s.fd = -1 \/ bufArg = NULL \/ max <= 0 \/ max > MAX_FILES THEN -1
    ELSE Len(ListNames(s, bufArg, max))

\* ---------------------------------------------------------------- write
NeededBlocks(size) == (size + BLOCK_SIZE - 1) \div BLOCK_SIZE

\* fs_write with the space check made after the old blocks are counted back
WriteRetCountsOld(s, name, data, size) ==
    IF s.fd = -1 \/ name = NULL \/ data = NULL \/ size <= 0 THEN -3
    ELSE IF name = LongName THEN -3
    ELSE IF size > MAX_FILES * BLOCK_SIZE THEN -3
    ELSE IF FindInode(s.tbl, name) = -1 THEN -1
    ELSE IF s.sb.free_blocks + PointerCount(s.tbl[FindInode(s.tbl, name)])
                < NeededBlocks(size) THEN -2
    ELSE 0

\* fs_write with the size check size < 0 in place of size <= 0
WriteRetZeroOk(s, name, data, size) ==
    IF s.fd = -1 \/ name = NULL \/ data = NULL \/ size < 0 THEN -3
    ELSE IF name = LongName THEN -3
    ELSE IF size > MAX_FILES * BLOCK_SIZE THEN -3
    ELSE IF FindInode(s.tbl, name) = -1 THEN -1
    ELSE IF s.sb.free_blocks < NeededBlocks(size) THEN -2
    ELSE 0

WriteRet(s, name, data, size) ==
    IF s.fd = -1 \/ name = NULL \/ data = NULL \/ size <= 0 THEN -3
    ELSE IF name = LongName THEN -3
    ELSE IF size > MAX_FILES * BLOCK_SIZE THEN -3
    ELSE IF FindInode(s.tbl, name) = -1 THEN -1
    ELSE IF s.sb.free_blocks < NeededBlocks(size) THEN -2
    ELSE 0

\* The store target_inode->blocks[i] = block_idx with i >= MAX_DIRECT_BLOCKS
\* lands behind the inode's block array.  The inode table is an array of
\* records laid out as used, name, size, blocks, so word k behind the array of
\* inode slot is word k of the records that follow it.
NameWords == 1
InodeWords == 1 + NameWords + 1 + MAX_DIRECT_BLOCKS
\* a name field overwritten by a block index is no name a caller passes
GarbageName(v) == 1000 + v

PokeInode(ino, field, v) ==
    IF field = 0 THEN [ino EXCEPT !.used = v]
    ELSE IF field <= NameWords THEN [ino EXCEPT !.name = GarbageName(v)]
    ELSE IF field = NameWords + 1 THEN [ino EXCEPT !.size = v]
    ELSE [ino EXCEPT !.blocks[field - NameWords - 2] = v]

\* Behind the last inode the store leaves inode_table: what it hits depends on
\* where the linker put the other objects.  Two outcomes are modelled: the word
\* is one the file system never reads ("absorbed"), or it is the first word of
\* block_bitmap ("bitmap"), whose 32 bits become the bits of the value.
TailOutcomes == {"absorbed", "bitmap"}
BitOf(v, b) == ((v \div (2 ^ b)) % 2) = 1
PokeBitmap(bm, word, v) ==
    [b \in DOMAIN bm |->
        IF b \div 32 = word THEN BitOf(v, b % 32) ELSE bm[b]]

OutOfBoundsStore(s, slot, k, v, tail) ==
    LET target == slot + 1 + (k \div InodeWords)
        field == k % InodeWords
        behind == k - (MAX_FILES - 1 - slot) * InodeWords
    IN IF target < MAX_FILES
       THEN [s EXCEPT !.tbl[target] = PokeInode(@, field, v)]
       ELSE IF tail = "bitmap"
            THEN [s EXCEPT !.bm = PokeBitmap(@, behind, v)]
            ELSE s

\* "Free old blocks" that gives back the pointers but not the count
FreeOldNoCount(s, idx) ==
    [s EXCEPT !.bm = ReleaseBitmap(@, s.tbl[idx]),
              !.tbl[idx].blocks = [j \in BlockSlots |-> 0]]

\* "Free old blocks"
FreeOld(s, idx) ==
    [s EXCEPT !.bm = ReleaseBitmap(@, s.tbl[idx]),
              !.sb.free_blocks = @ + PointerCount(s.tbl[idx]),
              !.tbl[idx].blocks = [j \in BlockSlots |-> 0]]

\* BlockImage with the source offset i * BLOCK_SIZE forgotten: every block is
\* filled from the start of the caller's data
BlockImageFromStart(data, size, i) ==
    LET to_write == IF i = NeededBlocks(size) - 1
                    THEN size - i * BLOCK_SIZE ELSE BLOCK_SIZE
    IN [j \in 1 .. BLOCK_SIZE |-> IF j <= to_write THEN ByteOf(data, j) ELSE 0]

\* the BLOCK_SIZE bytes written to the i-th block of a write of size bytes
BlockImage(data, size, i) ==
    LET to_write == IF i = NeededBlocks(size) - 1
                    THEN size - i * BLOCK_SIZE ELSE BLOCK_SIZE
    IN [j \in 1 .. BLOCK_SIZE |->
          IF j <= to_write THEN ByteOf(data, i * BLOCK_SIZE + j) ELSE 0]

\* one iteration of "Allocate new blocks"
AllocateOne(s, idx, i, data, size, tail) ==
    LET block_idx == FindFreeBlock(s.bm)
        s1 == [s EXCEPT !.bm = MarkBlockUsed(@, block_idx),
                        !.sb.free_blocks = @ - 1]
        s2 == IF i < MAX_DIRECT_BLOCKS
              THEN [s1 EXCEPT !.tbl[idx].blocks[i] = block_idx]
              ELSE OutOfBoundsStore(s1, idx, i - MAX_DIRECT_BLOCKS, block_idx, tail)
    IN IF block_idx \in DataBlocks
       THEN [s2 EXCEPT !.data[block_idx] = BlockImage(data, size, i)]
       ELSE s2

RECURSIVE Allocate(_, _, _, _, _, _)
Allocate(s, idx, i, data, size, tail) ==
    IF i >= NeededBlocks(size) THEN s
    ELSE Allocate(AllocateOne(s, idx, i, data, size, tail),
                  idx, i + 1, data, size, tail)

\* "Zero out unused block pointers" and "update the inode's size"
Finish(s, idx, size) ==
    [s EXCEPT !.tbl[idx].blocks =
                  [j \in BlockSlots |-> IF j >= NeededBlocks(size) THEN 0 ELSE @[j]],
              !.tbl[idx].size = size]

\* fs_write that releases the file's old blocks before the space check
WriteFreesFirst(s, name, data, size, tail) ==
    IF WriteRet(s, name, data, size) = -2
    THEN FreeOld(s, FindInode(s.tbl, name))
    ELSE IF WriteRet(s, name, data, size) # 0 THEN s
    ELSE LET idx == FindInode(s.tbl, name)
         IN Finish(Allocate(FreeOld(s, idx), idx, 0, data, size, tail), idx, size)

WriteR(s, name, data, size, tail) ==
    IF WriteRet(s, name, data, size) # 0 THEN s
    ELSE LET idx == FindInode(s.tbl, name)
         IN Finish(Allocate(FreeOld(s, idx), idx, 0, data, size, tail), idx, size)

\* ----------------------------------------------------------------- read
ReadCheck(s, name, bufArg, size) ==
    IF s.fd = -1 \/ name = NULL \/ bufArg = NULL \/ size <= 0 THEN -3
    ELSE IF name = LongName THEN -3
    ELSE IF FindInode(s.tbl, name) = -1 THEN -1
    ELSE 0

\* the read loop: the bytes copied into the caller's buffer
RECURSIVE ReadLoop(_, _, _, _, _)
ReadLoop(s, ino, i, bytes_to_read, acc) ==
    IF i >= MAX_DIRECT_BLOCKS \/ Len(acc) >= bytes_to_read THEN acc
    ELSE IF ino.blocks[i] = 0 THEN acc
    ELSE LET chunk == Min(BLOCK_SIZE, bytes_to_read - Len(acc))
             blk == IF ino.blocks[i] \in DataBlocks
                    THEN s.data[ino.blocks[i]] ELSE ZeroBlock
         IN ReadLoop(s, ino, i + 1, bytes_to_read, acc \o SubSeq(blk, 1, chunk))

ReadBytes(s, name, bufArg, size) ==
    IF ReadCheck(s, name, bufArg, size) # 0 THEN <<>>
    ELSE LET ino == s.tbl[FindInode(s.tbl, name)]
         IN ReadLoop(s, ino, 0, Min(size, ino.size), <<>>)

ReadRet(s, name, bufArg, size) ==
    IF ReadCheck(s, name, bufArg, size) # 0 THEN ReadCheck(s, name, bufArg, size)
    ELSE Len(ReadBytes(s, name, bufArg, size))

\* -------------------------------------------------------------- actions
\* a valid destination buffer
Buf == 0

Format(openOk) ==
    /\ Becomes(FormatR(Cur, openOk))
    /\ UNCHANGED deleted

Mount ==
    /\ Becomes(MountR(Cur))
    /\ UNCHANGED deleted

Unmount ==
    /\ Becomes(UnmountR(Cur))
    /\ UNCHANGED deleted

Create(name) ==
    /\ Becomes(CreateR(Cur, name))
    /\ deleted' = IF CreateRet(Cur, name) = 0 THEN deleted \ {name} ELSE deleted

Delete(name) ==
    /\ Becomes(DeleteR(Cur, name))
    /\ deleted' = IF DeleteRet(Cur, name) = 0 THEN deleted \cup {name} ELSE deleted

\* fs_list and fs_read change nothing: what they return is ListRet, ListNames,
\* ReadRet and ReadBytes of the state they are called in
List(bufArg, max) ==
    /\ ListRet(Cur, bufArg, max) \in (-1) .. MAX_FILES
    /\ Becomes(Cur)
    /\ UNCHANGED deleted

Write(name, data, size, tail) ==
    /\ Becomes(WriteR(Cur, name, data, size, tail))
    /\ UNCHANGED deleted

Read(name, bufArg, size) ==
    /\ ReadRet(Cur, name, bufArg, size) \in (-3) .. size
    /\ Becomes(Cur)
    /\ UNCHANGED deleted

\* --------------------------------------------------------- specification
InitState(s) ==
    /\ disk_fd = s.fd
    /\ sb = s.sb
    /\ block_bitmap = s.bm
    /\ inode_table = s.tbl
    /\ disk_exists = s.dexists
    /\ disk_len = s.dlen
    /\ disk_sb = s.dsb
    /\ disk_bitmap = s.dbm
    /\ disk_inodes = s.dtbl
    /\ disk_data = s.data

\* What the path names before the first call: nothing; a file that ends before
\* the superblock, the bitmap or the inode table; or a whole image whose
\* superblock has one field that is not the compiled constant.
BadSuperblocks ==
    {[FreshSb EXCEPT !.total_blocks = MAX_BLOCKS + 1],
     [FreshSb EXCEPT !.block_size = BLOCK_SIZE + 1],
     [FreshSb EXCEPT !.total_inodes = MAX_FILES + 1]}
StartImages ==
    {Boot,
     [Boot EXCEPT !.dexists = TRUE],
     [Boot EXCEPT !.dexists = TRUE, !.dlen = {"sb"}, !.dsb = FreshSb],
     [Boot EXCEPT !.dexists = TRUE, !.dlen = {"sb", "bitmap"}, !.dsb = FreshSb,
                  !.dbm = FreshBitmap]}
    \cup {[Boot EXCEPT !.dexists = TRUE, !.dlen = Regions, !.dsb = x,
                       !.dbm = FreshBitmap] : x \in BadSuperblocks}

Init ==
    /\ \E img \in StartImages : InitState(img)
    /\ steps = 0
    /\ deleted = {}

\* The calls that build the reachable states: every name, one data pattern, a
\* size of one partial block, of two blocks and of MAX_DIRECT_BLOCKS + 1
\* blocks, and one call with each kind of invalid argument.
GenSizes == {1, BLOCK_SIZE + 1, MaxFileSize + 1}
GenWrites ==
    {<<n, 1, z, "absorbed">> : n \in Names, z \in GenSizes}
    \cup {<<n, 1, MaxFileSize + 1, "bitmap">> : n \in Names}
    \cup {<<NULL, 1, 1, "absorbed">>, <<LongName, 1, 1, "absorbed">>,
          <<1, NULL, 1, "absorbed">>, <<1, 1, 0, "absorbed">>,
          <<1, 1, MaxAccepted + 1, "absorbed">>}
GenReads ==
    {<<n, Buf, MaxFileSize>> : n \in Names}
    \cup {<<NULL, Buf, 1>>, <<LongName, Buf, 1>>, <<1, NULL, 1>>, <<1, Buf, 0>>}
GenLists == {<<Buf, MAX_FILES>>, <<Buf, 1>>, <<NULL, 1>>, <<Buf, 0>>,
             <<Buf, MAX_FILES + 1>>}

Next ==
    \/ \E openOk \in BOOLEAN : Format(openOk)
    \/ Mount
    \/ Unmount
    \/ \E name \in NameArgs : Create(name)
    \/ \E name \in NameArgs : Delete(name)
    \/ \E c \in GenLists : List(c[1], c[2])
    \/ \E c \in GenWrites : Write(c[1], c[2], c[3], c[4])
    \/ \E c \in GenReads : Read(c[1], c[2], c[3])

Spec == Init /\ [][Next]_vars

\* ------------------------------------------------------------ properties
Mounted == disk_fd # -1
Exists(s, name) == FindInode(s.tbl, name) # -1
InodeOf(s, name) == s.tbl[FindInode(s.tbl, name)]

\* the number of non-zero block pointers over the used inodes
RECURSIVE PointerSum(_, _)
PointerSum(tbl, i) ==
    IF i >= MAX_FILES THEN 0
    ELSE (IF tbl[i].used # 0 THEN PointerCount(tbl[i]) ELSE 0) + PointerSum(tbl, i + 1)

\* C1 as stated: for every existing file and every size 0 <= z <= MAX_DIRECT_BLOCKS
\* * BLOCK_SIZE, fs_write(name, data, z) followed by fs_read(name, buf, z)
\* returns z and the bytes of data.
C1_WriteThenReadFromZero ==
    \A n \in Names, d \in Patterns, z \in 0 .. MaxFileSize, t \in TailOutcomes :
        (Mounted /\ Exists(Cur, n)) =>
            LET s1 == WriteR(Cur, n, d, z, t)
            IN /\ ReadRet(s1, n, Buf, z) = z
               /\ ReadBytes(s1, n, Buf, z) = DataOf(d, z)

\* C1 amended: for every size 1 <= z <= MAX_DIRECT_BLOCKS * BLOCK_SIZE for which
\* fs_write(name, data, z) returns 0, the fs_read(name, buf, z) that follows
\* returns z and the bytes of data.
C1_WriteThenRead ==
    \A n \in Names, d \in Patterns, z \in 1 .. MaxFileSize, t \in TailOutcomes :
        WriteRet(Cur, n, d, z) = 0 =>
            LET s1 == WriteR(Cur, n, d, z, t)
            IN /\ ReadRet(s1, n, Buf, z) = z
               /\ ReadBytes(s1, n, Buf, z) = DataOf(d, z)

\* a file of two blocks has been written and reads back as written
C1_Witness ==
    \E n \in Names :
        /\ Mounted /\ Exists(Cur, n)
        /\ InodeOf(Cur, n).size = BLOCK_SIZE + 1
        /\ ReadRet(Cur, n, Buf, BLOCK_SIZE + 1) = BLOCK_SIZE + 1
        /\ ReadBytes(Cur, n, Buf, BLOCK_SIZE + 1) = DataOf(1, BLOCK_SIZE + 1)
        /\ \E d \in Patterns : WriteRet(Cur, n, d, MaxFileSize) = 0

\* C2: while mounted, free_blocks plus the number of non-zero block pointers
\* of the used inodes is MAX_BLOCKS - 10.
C2_BlockAccounting ==
    Mounted => sb.free_blocks + PointerSum(inode_table, 0) = MAX_BLOCKS - RESERVED

\* C3: while mounted, free_inodes plus the number of used inodes is MAX_FILES,
\* the used inodes being those with used = 1 or, as find_inode and
\* find_free_inode test the flag, those with used # 0.
C3_InodeAccounting ==
    Mounted =>
        \/ sb.free_inodes + Cardinality({i \in Slots : inode_table[i].used = 1}) = MAX_FILES
        \/ sb.free_inodes + Cardinality(UsedSlots(inode_table)) = MAX_FILES

\* C4: in every state the non-zero block pointers of the used inodes are
\* pairwise distinct.
PointerSlots == {<<i, j>> \in Slots \X BlockSlots :
                    inode_table[i].used # 0 /\ inode_table[i].blocks[j] # 0}
C5_UniqueNames ==
    \A i, k \in UsedSlots(inode_table) :
        i # k => inode_table[i].name # inode_table[k].name

\* C6: while mounted, fs_read, fs_write and fs_delete of a name that fs_delete
\* removed return -1 until fs_create of that name succeeds.
C6_DeletedStaysGone ==
    Mounted =>
        \A n \in deleted :
            /\ ReadRet(Cur, n, Buf, 1) = -1
            /\ WriteRet(Cur, n, 1, 1) = -1
            /\ DeleteRet(Cur, n) = -1

\* C7: fs_create of a new valid name returns 0 and takes one slot while fewer
\* than MAX_FILES inodes are used, and returns -2 and changes nothing when
\* MAX_FILES are; a successful fs_delete gives back exactly one slot.  From an
\* empty table that is: MAX_FILES creates succeed, the next returns -2, and
\* after one delete exactly one more succeeds.
UsedCount(s) == Cardinality(UsedSlots(s.tbl))
C7_CreateUntilFull ==
    Mounted =>
        /\ \A n \in Names :
              ~Exists(Cur, n) =>
                  IF UsedCount(Cur) < MAX_FILES
                  THEN /\ CreateRet(Cur, n) = 0
                       /\ UsedCount(CreateR(Cur, n)) = UsedCount(Cur) + 1
                       /\ Exists(CreateR(Cur, n), n)
                  ELSE /\ CreateRet(Cur, n) = -2
                       /\ CreateR(Cur, n) = Cur
        /\ \A n \in Names :
              Exists(Cur, n) =>
                  /\ DeleteRet(Cur, n) = 0
                  /\ UsedCount(DeleteR(Cur, n)) = UsedCount(Cur) - 1

\* MAX_FILES files were created, one was deleted and another created in its
\* place: creating the deleted name again now returns -2
C7_Witness ==
    /\ Mounted
    /\ \A i \in Slots : inode_table[i].used = 1 /\ inode_table[i].size = 0
    /\ sb.free_inodes = 0
    /\ \E n \in deleted : ~Exists(Cur, n) /\ CreateRet(Cur, n) = -2

\* C8: a successful fs_write(name, d2, z2) to a file written before replaces
\* the content: fs_read(name, buf, n) with n >= z2 returns z2 and the bytes of d2.
C8_OverwriteReplaces ==
    \A n \in Names, d \in Patterns, z \in 1 .. MaxAccepted, t \in TailOutcomes :
        (Exists(Cur, n) /\ InodeOf(Cur, n).size > 0 /\ WriteRet(Cur, n, d, z) = 0) =>
            LET s1 == WriteR(Cur, n, d, z, t)
            IN \A r \in z .. (MaxAccepted + 1) :
                  /\ ReadRet(s1, n, Buf, r) = z
                  /\ ReadBytes(s1, n, Buf, r) = DataOf(d, z)

\* C9: after fs_unmount and fs_mount of the same image, fs_read of every file
\* returns the length and the bytes it returned before the unmount.
C9_RemountKeepsContent ==
    Mounted =>
        LET s2 == MountR(UnmountR(Cur))
        IN /\ MountRet(UnmountR(Cur)) = 0
           /\ \A n \in Names, r \in Sizes :
                 /\ ReadRet(s2, n, Buf, r) = ReadRet(Cur, n, Buf, r)
                 /\ ReadBytes(s2, n, Buf, r) = ReadBytes(Cur, n, Buf, r)

\* a file written before an unmount is read back in the session mounted after
C9_Witness ==
    /\ Mounted
    /\ disk_inodes = inode_table
    /\ \E n \in Names :
          /\ Exists(Cur, n)
          /\ InodeOf(Cur, n).size = BLOCK_SIZE + 1
          /\ ReadBytes(Cur, n, Buf, MaxFileSize) = DataOf(1, BLOCK_SIZE + 1)

\* C10: after a successful fs_write(name, data, z) the inode holds exactly
\* ceil(z / BLOCK_SIZE) non-zero block pointers, in its first slots, and
\* size = z, so a read returns at most z bytes.
C10_BlocksForSize ==
    \A n \in Names, d \in Patterns, z \in 1 .. MaxAccepted, t \in TailOutcomes :
        WriteRet(Cur, n, d, z) = 0 =>
            LET s1 == WriteR(Cur, n, d, z, t)
                ino == InodeOf(s1, n)
            IN /\ PointerCount(ino) = NeededBlocks(z)
               /\ \A j \in BlockSlots : (ino.blocks[j] # 0) <=> (j < NeededBlocks(z))
               /\ ino.size = z
               /\ ReadRet(s1, n, Buf, MaxAccepted + 1) <= z

\* C11: in every state each used inode has size <= MAX_DIRECT_BLOCKS *
\* BLOCK_SIZE, and no fs_write of more than MAX_DIRECT_BLOCKS * BLOCK_SIZE
\* bytes returns 0.
C11_SizeCap ==
    /\ \A i \in UsedSlots(inode_table) : inode_table[i].size <= MaxFileSize
    /\ \A n \in Names, d \in Patterns, z \in (MaxFileSize + 1) .. (MaxAccepted + 1) :
          WriteRet(Cur, n, d, z) # 0

\* C12: fs_mount on a mounted session returns -1 and changes nothing, and
\* fs_mount returns 0 and mounts again after fs_unmount.
C12_MountExclusive ==
    Mounted =>
        /\ MountRet(Cur) = -1
        /\ MountR(Cur) = Cur
        /\ MountRet(UnmountR(Cur)) = 0
        /\ MountR(UnmountR(Cur)).fd # -1

\* a second session, mounted after an unmount, holds a file written since:
\* a further fs_mount is refused and would otherwise drop that file's content
C12_Witness ==
    /\ Mounted
    /\ disk_sb # FreshSb
    /\ disk_inodes # inode_table
    /\ \E n \in Names : Exists(Cur, n) /\ InodeOf(Cur, n).size > 0
    /\ MountRet(Cur) = -1

\* every argument a caller can pass
DataArgs == Patterns \cup {NULL}
BufArgs == {Buf, NULL}

\* C13: while nothing is mounted fs_create, fs_write and fs_read return -3 and
\* fs_delete returns -2, whatever the arguments, and none of them changes the
\* globals or the image.
C13_Unmounted ==
    ~Mounted =>
        \A n \in NameArgs :
            /\ CreateRet(Cur, n) = -3 /\ CreateR(Cur, n) = Cur
            /\ DeleteRet(Cur, n) = -2 /\ DeleteR(Cur, n) = Cur
            /\ \A d \in DataArgs, z \in Sizes, t \in TailOutcomes :
                  WriteRet(Cur, n, d, z) = -3 /\ WriteR(Cur, n, d, z, t) = Cur
            /\ \A b \in BufArgs, z \in Sizes :
                  ReadRet(Cur, n, b, z) = -3 /\ ReadBytes(Cur, n, b, z) = <<>>

\* after fs_unmount the inode table in memory still holds a written file and a
\* free slot, yet reading it and creating a new name return -3
C13_Witness ==
    /\ ~Mounted
    /\ disk_inodes = inode_table
    /\ \E n \in Names : Exists(Cur, n) /\ InodeOf(Cur, n).size > 0
                        /\ ReadRet(Cur, n, Buf, 1) = -3
    /\ \E n \in Names : ~Exists(Cur, n) /\ FindFreeInode(inode_table) # -1
                        /\ CreateRet(Cur, n) = -3

\* C14: on a mounted file system a null name, a name of MAX_FILENAME or more
\* characters, a null data or buffer, or a size <= 0 makes the call return -3
\* and leaves superblock, bitmap, inode table and data blocks unchanged.
BadNames == {NULL, LongName}
BadSizes == {z \in Sizes : z <= 0}
C14_InvalidArgument ==
    Mounted =>
        /\ \A n \in BadNames :
              /\ CreateRet(Cur, n) = -3 /\ CreateR(Cur, n) = Cur
              /\ DeleteRet(Cur, n) = -3 /\ DeleteR(Cur, n) = Cur
        /\ \A n \in NameArgs, d \in DataArgs, z \in Sizes, t \in TailOutcomes :
              (n \in BadNames \/ d = NULL \/ z \in BadSizes) =>
                  WriteRet(Cur, n, d, z) = -3 /\ WriteR(Cur, n, d, z, t) = Cur
        /\ \A n \in NameArgs, b \in BufArgs, z \in Sizes :
              (n \in BadNames \/ b = NULL \/ z \in BadSizes) =>
                  ReadRet(Cur, n, b, z) = -3 /\ ReadBytes(Cur, n, b, z) = <<>>

\* a written file with blocks to spare: the calls would succeed but for the
\* null data, the null buffer or the size 0
C14_Witness ==
    /\ Mounted
    /\ \E n \in Names :
          /\ Exists(Cur, n) /\ InodeOf(Cur, n).size > 0
          /\ WriteRet(Cur, n, 1, 1) = 0
          /\ WriteRet(Cur, n, NULL, 1) = -3
          /\ WriteRet(Cur, n, 1, 0) = -3
          /\ ReadRet(Cur, n, Buf, 1) = 1
          /\ ReadRet(Cur, n, NULL, 1) = -3
          /\ ReadRet(Cur, n, Buf, 0) = -3

\* some used inode holds the name
Holds(s, name) == \E i \in Slots : s.tbl[i].used # 0 /\ s.tbl[i].name = name

\* C15: on a mounted file system fs_read, fs_write and fs_delete of a name no
\* used inode holds, and fs_create of a name a used inode holds, return -1 and
\* leave superblock, bitmap, inode table and data blocks unchanged (the other
\* arguments being valid).
C15_NotFound ==
    Mounted =>
        \A n \in Names :
            IF Holds(Cur, n)
            THEN CreateRet(Cur, n) = -1 /\ CreateR(Cur, n) = Cur
            ELSE /\ DeleteRet(Cur, n) = -1 /\ DeleteR(Cur, n) = Cur
                 /\ \A d \in Patterns, z \in 1 .. MaxAccepted, t \in TailOutcomes :
                       WriteRet(Cur, n, d, z) = -1 /\ WriteR(Cur, n, d, z, t) = Cur
                 /\ \A z \in 1 .. (MaxAccepted + 1) :
                       ReadRet(Cur, n, Buf, z) = -1 /\ ReadBytes(Cur, n, Buf, z) = <<>>

\* a written file, a free slot, free blocks and a name that was deleted: the
\* create of the first and the write of the second fail only on the name
C15_Witness ==
    /\ Mounted
    /\ FindFreeInode(inode_table) # -1
    /\ sb.free_blocks >= 1
    /\ \E n \in Names : Holds(Cur, n) /\ InodeOf(Cur, n).size > 0 /\ CreateRet(Cur, n) = -1
    /\ \E n \in deleted : ~Holds(Cur, n) /\ WriteRet(Cur, n, 1, 1) = -1

\* C16: fs_write to an existing file that needs more blocks than
\* sb.free_blocks returns -2 and changes nothing: size, block pointers and
\* content of the file, bitmap and free_blocks stay as they were.
C16_NoSpaceNoChange ==
    Mounted =>
        \A n \in Names, d \in Patterns, z \in 1 .. MaxAccepted, t \in TailOutcomes :
            (Holds(Cur, n) /\ NeededBlocks(z) > sb.free_blocks) =>
                /\ WriteRet(Cur, n, d, z) = -2
                /\ WriteR(Cur, n, d, z, t) = Cur
                /\ ReadBytes(WriteR(Cur, n, d, z, t), n, Buf, MaxAccepted)
                       = ReadBytes(Cur, n, Buf, MaxAccepted)

\* two files of two blocks each fill the data blocks: rewriting one of them
\* with a single byte returns -2 and it still reads as written
C16_Witness ==
    /\ Mounted
    /\ sb.free_blocks = 0
    /\ \A i \in UsedSlots(inode_table) : inode_table[i].size <= MaxFileSize
    /\ \E n \in Names :
          /\ Holds(Cur, n)
          /\ PointerCount(InodeOf(Cur, n)) = NeededBlocks(BLOCK_SIZE + 1)
          /\ WriteRet(Cur, n, 2, 1) = -2
          /\ ReadBytes(Cur, n, Buf, MaxFileSize) = DataOf(1, BLOCK_SIZE + 1)

\* C17: after a successful fs_format, whatever the image and the globals held
\* before, fs_mount leaves a mounted empty file system: free_blocks =
\* MAX_BLOCKS - 10, free_inodes = MAX_FILES, bitmap bits 0..9 set and the
\* others clear, every inode unused with size 0 and zero pointers, and fs_list
\* returns 0.  When nothing was mounted before, that fs_mount returns 0.
Formatted(s) == MountR(FormatR(s, TRUE))
C17_FormatGivesEmpty ==
    LET s2 == Formatted(Cur)
    IN /\ FormatRet(TRUE) = 0
       /\ ~Mounted => MountRet(FormatR(Cur, TRUE)) = 0
       /\ s2.fd # -1
       /\ s2.sb.free_blocks = MAX_BLOCKS - RESERVED
       /\ s2.sb.free_inodes = MAX_FILES
       /\ \A b \in Blocks : s2.bm[b] <=> (b < RESERVED)
       /\ \A i \in Slots :
             /\ s2.tbl[i].used = 0
             /\ s2.tbl[i].size = 0
             /\ \A j \in BlockSlots : s2.tbl[i].blocks[j] = 0
       /\ ListRet(s2, Buf, MAX_FILES) = 0
       /\ ListNames(s2, Buf, MAX_FILES) = <<>>

\* an unmounted image that holds a written file: mounted as it is it lists the
\* file, formatted first it lists nothing
C17_Witness ==
    /\ ~Mounted
    /\ disk_data # ZeroData
    /\ \E i \in Slots : disk_inodes[i].used = 1 /\ disk_inodes[i].size > 0
    /\ ListRet(MountR(Cur), Buf, MAX_FILES) > 0
    /\ ListRet(Formatted(Cur), Buf, MAX_FILES) = 0

\* C18 as stated: after a successful fs_format, from any state, no session is
\* mounted and fs_create returns -3.
C18_FormatLeavesUnmounted ==
    LET s1 == FormatR(Cur, TRUE)
    IN /\ s1.fd = -1
       /\ \A n \in Names : CreateRet(s1, n) = -3

\* C18 amended: fs_format does not change whether a session is mounted.  With
\* none mounted before, none is mounted after and fs_create returns -3; with
\* one mounted before, it is still mounted after a successful fs_format, on an
\* empty inode table, and fs_create of any valid name returns 0.
C18_FormatKeepsMountState ==
    \A openOk \in BOOLEAN :
        LET s1 == FormatR(Cur, openOk)
        IN /\ s1.fd = disk_fd
           /\ ~Mounted => \A n \in NameArgs : CreateRet(s1, n) = -3
           /\ (Mounted /\ openOk) => \A n \in Names : CreateRet(s1, n) = 0

\* a mounted session holding a file: after fs_format it is still mounted
C18_Witness ==
    /\ Mounted
    /\ \E n \in Names : Holds(Cur, n) /\ InodeOf(Cur, n).size > 0
    /\ FormatR(Cur, TRUE).fd # -1
    /\ FormatR(Cur, TRUE).tbl = FreshTable
    /\ \A n \in Names : CreateRet(FormatR(Cur, TRUE), n) = 0

\* what every file operation returns when nothing is mounted
FailsUnmounted(s) ==
    /\ \A n \in Names : CreateRet(s, n) = -3 /\ DeleteRet(s, n) = -2
    /\ \A n \in Names, d \in Patterns, z \in 1 .. MaxFileSize :
          WriteRet(s, n, d, z) = -3 /\ ReadRet(s, n, Buf, z) = -3
    /\ \A m \in 1 .. MAX_FILES : ListRet(s, Buf, m) = -1

\* C19: fs_unmount changes nothing when nothing is mounted, and twice is the
\* same as once; when mounted it writes superblock, bitmap and inode table to
\* the image, leaves the data blocks and the globals other than disk_fd alone
\* and sets disk_fd = -1, so that every file operation fails as not mounted,
\* also after a further fs_unmount or fs_format, until fs_mount succeeds.
C19_Unmount ==
    LET s1 == UnmountR(Cur)
    IN /\ ~Mounted => s1 = Cur
       /\ UnmountR(s1) = s1
       /\ s1.fd = -1
       /\ Mounted => /\ s1.dsb = sb /\ s1.dbm = block_bitmap /\ s1.dtbl = inode_table
                     /\ s1.data = disk_data /\ s1.dexists
                     /\ s1.sb = sb /\ s1.bm = block_bitmap /\ s1.tbl = inode_table
                     /\ MountRet(s1) = 0 /\ MountR(s1).fd # -1
       /\ FailsUnmounted(s1)
       /\ \A openOk \in BOOLEAN : FailsUnmounted(FormatR(s1, openOk))

\* a mounted session whose superblock, bitmap and inode table all differ from
\* the image: fs_unmount writes the three and the file operations then fail
C19_Witness ==
    /\ Mounted
    /\ disk_sb # sb /\ disk_bitmap # block_bitmap /\ disk_inodes # inode_table
    /\ UnmountR(Cur).dtbl = inode_table
    /\ \E n \in Names : Holds(Cur, n) /\ ReadRet(Cur, n, Buf, 1) = 1
                        /\ ReadRet(UnmountR(Cur), n, Buf, 1) = -3

\* the names of the used inodes in ascending slot order, cut to max entries:
\* entry k is the name in the used slot that has k - 1 used slots below it
IsListing(tbl, max, r) ==
    /\ Len(r) = Min(max, Cardinality(UsedSlots(tbl)))
    /\ \A k \in 1 .. Len(r) :
          \E i \in UsedSlots(tbl) :
              /\ Cardinality({j \in UsedSlots(tbl) : j < i}) = k - 1
              /\ r[k] = tbl[i].name

\* C20: on a mounted file system fs_list(buf, max) with 0 < max <= MAX_FILES
\* returns min(max, number of used inodes) and fills buf with the names of the
\* used inodes in ascending slot order.
C20_List ==
    Mounted =>
        \A m \in 1 .. MAX_FILES :
            /\ ListRet(Cur, Buf, m) = Min(m, Cardinality(UsedSlots(inode_table)))
            /\ IsListing(inode_table, m, ListNames(Cur, Buf, m))

\* a full table: deleting the file in slot 0 and creating a new name lists the
\* new name first, and a list of one entry returns 1
C20_Witness ==
    /\ Mounted
    /\ \A i \in Slots : inode_table[i].used = 1
    /\ ListRet(Cur, Buf, MAX_FILES) = MAX_FILES
    /\ ListRet(Cur, Buf, 1) = 1
    /\ \E d \in Names :
          /\ ~Holds(Cur, d)
          /\ LET s2 == CreateR(DeleteR(Cur, inode_table[0].name), d)
             IN /\ ListNames(s2, Buf, MAX_FILES)[1] = d
                /\ ListNames(s2, Buf, MAX_FILES)[MAX_FILES] = inode_table[MAX_FILES - 1].name

\* C21: fs_read(name, buf, size) of an existing file returns min(size,
\* inode.size), 0 for a file never written, and changes nothing.
C21_ReadLength ==
    Mounted =>
        \A n \in Names, z \in 1 .. (MaxAccepted + 1) :
            Holds(Cur, n) =>
                /\ ReadRet(Cur, n, Buf, z) = Min(z, InodeOf(Cur, n).size)
                /\ Len(ReadBytes(Cur, n, Buf, z)) = Min(z, InodeOf(Cur, n).size)

LowestUnused(tbl, i) ==
    /\ i \in Slots
    /\ tbl[i].used = 0
    /\ \A j \in Slots : j < i => tbl[j].used # 0

\* C23: a successful fs_create(name) sets the lowest-indexed unused slot to
\* used, name, size 0 and zero pointers, decrements free_inodes by 1 and
\* changes nothing else: free_blocks, bitmap, the other inodes and the image.
C23_CreateFrame ==
    Mounted =>
        \A n \in Names :
            CreateRet(Cur, n) = 0 =>
                LET s1 == CreateR(Cur, n)
                IN \E i \in Slots :
                      /\ LowestUnused(inode_table, i)
                      /\ s1.tbl[i].used = 1
                      /\ s1.tbl[i].name = n
                      /\ s1.tbl[i].size = 0
                      /\ \A j \in BlockSlots : s1.tbl[i].blocks[j] = 0
                      /\ \A k \in Slots \ {i} : s1.tbl[k] = inode_table[k]
                      /\ s1.sb = [sb EXCEPT !.free_inodes = @ - 1]
                      /\ s1.bm = block_bitmap
                      /\ s1 = [Cur EXCEPT !.tbl = s1.tbl, !.sb = s1.sb]

\* slot 0 was freed by a delete while slot 1 holds a written file: the next
\* create takes slot 0
C23_Witness ==
    /\ Mounted
    /\ deleted # {}
    /\ inode_table[0].used = 0
    /\ inode_table[1].used = 1 /\ inode_table[1].size > 0
    /\ inode_table[2].used = 0
    /\ \E n \in Names : CreateRet(Cur, n) = 0 /\ CreateR(Cur, n).tbl[0].name = n
                        /\ CreateR(Cur, n).tbl[2].used = 0

\* C24: a successful fs_delete(name) of a file with k non-zero block pointers
\* leaves the bits of those k blocks clear and every other bit as it was, adds
\* k to free_blocks and 1 to free_inodes, leaves the inode unused with size 0
\* and zero pointers, and changes no other inode and nothing of the image.
C24_DeleteFrame ==
    Mounted =>
        \A n \in Names :
            DeleteRet(Cur, n) = 0 =>
                LET s1 == DeleteR(Cur, n)
                    i == CHOOSE i \in Slots :
                             /\ inode_table[i].used # 0 /\ inode_table[i].name = n
                             /\ \A j \in Slots : (j < i /\ inode_table[j].used # 0)
                                                    => inode_table[j].name # n
                    held == {inode_table[i].blocks[j] : j \in BlockSlots} \ {0}
                IN /\ Cardinality(held) = PointerCount(inode_table[i])
                   /\ \A b \in Blocks : s1.bm[b] = (block_bitmap[b] /\ b \notin held)
                   /\ s1.sb = [sb EXCEPT !.free_blocks = @ + Cardinality(held),
                                         !.free_inodes = @ + 1]
                   /\ s1.tbl[i].used = 0
                   /\ s1.tbl[i].size = 0
                   /\ \A j \in BlockSlots : s1.tbl[i].blocks[j] = 0
                   /\ \A k \in Slots \ {i} : s1.tbl[k] = inode_table[k]
                   /\ s1 = [Cur EXCEPT !.tbl = s1.tbl, !.sb = s1.sb, !.bm = s1.bm]
                   /\ \A m \in Names \ {n} : CreateRet(s1, m) \in {0, -1}
                   /\ (held # {} /\ \A b \in held : block_bitmap[b])
                          => FindFreeBlock(s1.bm) <= CHOOSE b \in held : \A c \in held : b <= c

\* two written files: deleting the one of two blocks frees two bits and a slot
C24_Witness ==
    /\ Mounted
    /\ \E n, m \in Names :
          /\ n # m /\ Holds(Cur, n) /\ Holds(Cur, m)
          /\ InodeOf(Cur, m).size > 0
          /\ PointerCount(InodeOf(Cur, n)) = NeededBlocks(BLOCK_SIZE + 1)
          /\ \A b \in PointedBlocks(InodeOf(Cur, n)) : block_bitmap[b]
          /\ DeleteRet(Cur, n) = 0
          /\ DeleteR(Cur, n).sb.free_blocks = sb.free_blocks + NeededBlocks(BLOCK_SIZE + 1)
          /\ InodeOf(DeleteR(Cur, n), m) = InodeOf(Cur, m)

\* the n lowest-indexed data blocks that are free in bm
LowestFree(bm, n) ==
    {b \in DataBlocks :
        /\ ~bm[b]
        /\ Cardinality({c \in DataBlocks : ~bm[c] /\ c < b}) < n}

\* C25: a successful fs_write to a file that held k blocks and needs n changes
\* free_blocks by k - n; the k old blocks are released before the n new ones
\* are taken, so an old block is referenced or marked used afterwards only if
\* this write took it again.
C25_WriteDelta ==
    Mounted =>
        \A n \in Names, d \in Patterns, z \in 1 .. MaxAccepted, t \in TailOutcomes :
            WriteRet(Cur, n, d, z) = 0 =>
                LET s1 == WriteR(Cur, n, d, z, t)
                    old == PointedBlocks(InodeOf(Cur, n))
                    released == [b \in Blocks |-> block_bitmap[b] /\ b \notin old]
                    taken == LowestFree(released, NeededBlocks(z))
                IN /\ s1.sb.free_blocks = sb.free_blocks + Cardinality(old) - NeededBlocks(z)
                   /\ \A b \in old \ taken :
                         /\ ~s1.bm[b]
                         /\ b \notin PointedBlocks(InodeOf(s1, n))

\* a file of two blocks with a free block above them: rewriting it with one
\* byte takes its first block again and frees the second
C25_Witness ==
    /\ Mounted
    /\ \E n \in Names :
          /\ Holds(Cur, n)
          /\ PointedBlocks(InodeOf(Cur, n)) = {RESERVED + 1, RESERVED + 2}
          /\ block_bitmap[RESERVED]
          /\ WriteRet(Cur, n, 1, 1) = 0
          /\ WriteR(Cur, n, 1, 1, "absorbed").sb.free_blocks = sb.free_blocks + 1
          /\ PointedBlocks(InodeOf(WriteR(Cur, n, 1, 1, "absorbed"), n)) = {RESERVED + 1}
          /\ ~WriteR(Cur, n, 1, 1, "absorbed").bm[RESERVED + 2]

\* no inode of the table has used = 0
TableFull(tbl) == \A i \in Slots : tbl[i].used # 0

\* C26: fs_create checks mounted, name non-null, name length, name not in use,
\* free slot, in that order: with a full inode table a name in use gives -1, a
\* null or oversized name gives -3 and only a valid new name gives -2, and in
\* each of these cases nothing is modified.
C26_CreateCheckOrder ==
    /\ ~Mounted => \A n \in NameArgs : CreateRet(Cur, n) = -3 /\ CreateR(Cur, n) = Cur
    /\ Mounted =>
          \A n \in NameArgs :
              /\ n \in BadNames => CreateRet(Cur, n) = -3
              /\ (n \in Names /\ Holds(Cur, n)) => CreateRet(Cur, n) = -1
              /\ TableFull(inode_table) =>
                    /\ (n \in Names /\ ~Holds(Cur, n)) => CreateRet(Cur, n) = -2
                    /\ CreateRet(Cur, n) = -2 => (n \in Names /\ ~Holds(Cur, n))
                    /\ CreateR(Cur, n) = Cur

\* a mounted state with a full table of files, and a name no file has
C26_Witness ==
    /\ Mounted
    /\ TableFull(inode_table)
    /\ sb.free_inodes = 0
    /\ \E n, m \in Names :
          /\ Holds(Cur, n)
          /\ ~Holds(Cur, m)
          /\ CreateRet(Cur, n) = -1
          /\ CreateRet(Cur, m) = -2
          /\ CreateRet(Cur, NULL) = -3
          /\ CreateRet(Cur, LongName) = -3

\* b is the free data block of bm with exactly j free data blocks below it
IsNthFree(bm, j, b) ==
    /\ b \in DataBlocks
    /\ ~bm[b]
    /\ Cardinality({c \in DataBlocks : ~bm[c] /\ c < b}) = j

\* C27: allocation is first-fit from block 10 upward: the block a successful
\* fs_write stores in slot j is the lowest data block that is free once the
\* file's old blocks are released and slots 0..j-1 are served, so the pointers
\* of the written inode are strictly increasing.
C27_FirstFit ==
    Mounted =>
        \A n \in Names, d \in Patterns, z \in 1 .. MaxAccepted, t \in TailOutcomes :
            WriteRet(Cur, n, d, z) = 0 =>
                LET idx == FindInode(inode_table, n)
                    old == PointedBlocks(inode_table[idx])
                    released == [b \in Blocks |-> block_bitmap[b] /\ b \notin old]
                    s1 == WriteR(Cur, n, d, z, t)
                    blocks == s1.tbl[idx].blocks
                IN /\ \A j \in BlockSlots :
                         j < NeededBlocks(z) => IsNthFree(released, j, blocks[j])
                   /\ \A j, k \in BlockSlots :
                         (j < k /\ k < NeededBlocks(z)) => blocks[j] < blocks[k]
                   /\ (NeededBlocks(z) > MAX_DIRECT_BLOCKS /\ idx + 1 \in Slots) =>
                         IsNthFree(released, MAX_DIRECT_BLOCKS, s1.tbl[idx + 1].used)

\* the first data block is free and a file holds the two blocks above it:
\* rewriting the file with two blocks takes the first block and then the
\* file's own former first block
C27_Witness ==
    /\ Mounted
    /\ ~block_bitmap[RESERVED]
    /\ \E n \in Names :
          /\ Holds(Cur, n)
          /\ InodeOf(Cur, n).blocks[0] = RESERVED + 1
          /\ InodeOf(Cur, n).blocks[1] = RESERVED + 2
          /\ block_bitmap[RESERVED + 1]
          /\ WriteRet(Cur, n, 1, BLOCK_SIZE + 1) = 0
          /\ InodeOf(WriteR(Cur, n, 1, BLOCK_SIZE + 1, "absorbed"), n).blocks[0] = RESERVED
          /\ InodeOf(WriteR(Cur, n, 1, BLOCK_SIZE + 1, "absorbed"), n).blocks[1] = RESERVED + 1

\* C28: fs_format called while a session is mounted does not modify the
\* session's in-memory superblock, bitmap or inode table: the files created
\* before are still found by fs_read and fs_list and the counters are unchanged.
C28_FormatKeepsSession ==
    Mounted =>
        LET s1 == FormatR(Cur, TRUE)
        IN /\ s1.sb = sb
           /\ s1.bm = block_bitmap
           /\ s1.tbl = inode_table
           /\ ListNames(s1, Buf, MAX_FILES) = ListNames(Cur, Buf, MAX_FILES)
           /\ \A n \in Names :
                 Holds(Cur, n) => ReadRet(s1, n, Buf, 1) = ReadRet(Cur, n, Buf, 1)

\* blocks 0..9 of the image: whether it exists, superblock, bitmap, inode table
DiskMeta(s) == <<s.dexists, s.dsb, s.dbm, s.dtbl>>

\* C29: metadata is written back only at unmount: fs_create, fs_delete,
\* fs_write, fs_read, fs_list (and fs_mount) leave blocks 0..9 of the image as
\* they are, and fs_write changes no data block but those it allocates.
C29_MetadataOnlyAtUnmount ==
    /\ DiskMeta(MountR(Cur)) = DiskMeta(Cur)
    /\ MountR(Cur).data = disk_data
    /\ \A n \in NameArgs :
          /\ DiskMeta(CreateR(Cur, n)) = DiskMeta(Cur)
          /\ CreateR(Cur, n).data = disk_data
          /\ DiskMeta(DeleteR(Cur, n)) = DiskMeta(Cur)
          /\ DeleteR(Cur, n).data = disk_data
          /\ \A d \in DataArgs, z \in Sizes, t \in TailOutcomes :
                LET s1 == WriteR(Cur, n, d, z, t)
                    old == IF WriteRet(Cur, n, d, z) = 0
                           THEN PointedBlocks(InodeOf(Cur, n)) ELSE {}
                    released == [b \in Blocks |-> block_bitmap[b] /\ b \notin old]
                    taken == IF WriteRet(Cur, n, d, z) = 0
                             THEN LowestFree(released, NeededBlocks(z)) ELSE {}
                IN /\ DiskMeta(s1) = DiskMeta(Cur)
                   /\ \A b \in DataBlocks : s1.data[b] # disk_data[b] => b \in taken

\* a mounted session whose superblock, bitmap and inode table all differ from
\* the image after a create and a write that changed a data block, and on which
\* a further create, write and delete succeed; fs_unmount then writes them
C29_Witness ==
    /\ Mounted
    /\ sb # disk_sb
    /\ block_bitmap # disk_bitmap
    /\ inode_table # disk_inodes
    /\ disk_data # ZeroData
    /\ DiskMeta(UnmountR(Cur)) # DiskMeta(Cur)
    /\ \E n, m \in Names :
          /\ CreateRet(Cur, m) = 0
          /\ DeleteRet(Cur, n) = 0
          /\ WriteRet(Cur, n, 2, 1) = 0
          /\ WriteR(Cur, n, 2, 1, "absorbed").data # disk_data

\* C30: metadata round-trips through unmount and mount: after fs_unmount
\* followed by fs_mount a session is mounted whose superblock counters, bitmap
\* and inodes equal their values just before the unmount; the stored counters
\* are taken as they are, not recomputed from the bitmap or the inode table.
C30_RemountKeepsMetadata ==
    Mounted =>
        LET s0 == UnmountR(Cur)
            s1 == MountR(s0)
        IN /\ s0.fd = -1
           /\ MountRet(s0) = 0
           /\ s1.fd # -1
           /\ s1.sb = sb
           /\ s1.bm = block_bitmap
           /\ s1.tbl = inode_table
           /\ s1.data = disk_data

\* a mounted session with a written file whose free_inodes counter is not the
\* number of unused inodes and whose image still holds the older metadata: the
\* round trip keeps the counter
C30_Witness ==
    /\ Mounted
    /\ disk_inodes # inode_table
    /\ disk_bitmap # block_bitmap
    /\ disk_sb # sb
    /\ \E i \in Slots : inode_table[i].used # 0 /\ inode_table[i].size > 0
    /\ sb.free_inodes # Cardinality({i \in Slots : inode_table[i].used = 0})
    /\ MountR(UnmountR(Cur)).sb.free_inodes = sb.free_inodes
    /\ MountR(UnmountR(Cur)).tbl = inode_table

\* the image cannot be mounted: no file, a file too short for a region, or a
\* superblock field that is not the compiled constant
Unmountable(s) ==
    \/ ~s.dexists
    \/ s.dlen # Regions
    \/ ~SbValid(s.dsb)

\* C31: a failed fs_mount never leaves the session marked mounted: when the
\* path is absent, a region cannot be read in full or a superblock field
\* differs from its constant, fs_mount returns -1 and the session is
\* unmounted, and fs_mount of a valid image afterwards succeeds.
C31_FailedMount ==
    ~Mounted =>
        LET s1 == MountR(Cur)
            s2 == FormatR(s1, TRUE)
        IN /\ Unmountable(Cur) <=> MountRet(Cur) = -1
           /\ MountRet(Cur) = -1 =>
                 /\ s1.fd = -1
                 /\ CreateRet(s1, 1) = -3
                 /\ DiskMeta(s1) = DiskMeta(Cur)
                 /\ MountRet(s2) = 0
                 /\ MountR(s2).fd # -1
                 /\ MountR(s2).sb = FreshSb
                 /\ MountR(s2).bm = FreshBitmap
                 /\ MountR(s2).tbl = FreshTable
           /\ MountRet(Cur) = 0 => s1.fd # -1

\* an image whose superblock is rejected, after the failed mount has loaded
\* that superblock: still unmounted, the mount fails again
C31_Witness ==
    /\ ~Mounted
    /\ disk_exists
    /\ disk_len = Regions
    /\ ~SbValid(disk_sb)
    /\ sb = disk_sb
    /\ MountRet(Cur) = -1
    /\ MountR(Cur).fd = -1

\* every max_files an fs_list call is checked with
MaxArgs == (-1) .. (MAX_FILES + 2)

\* C32: fs_list returns -1 and writes no entry when the file system is not
\* mounted, the buffer is null, max_files <= 0 or max_files > MAX_FILES; a
\* request larger than MAX_FILES is rejected, not clamped.
C32_ListRejects ==
    \A b \in BufArgs, m \in MaxArgs :
        IF ~Mounted \/ b = NULL \/ m <= 0 \/ m > MAX_FILES
        THEN /\ ListRet(Cur, b, m) = -1
             /\ ListNames(Cur, b, m) = <<>>
        ELSE ListRet(Cur, b, m) >= 0

\* a mounted session with two files: a list of MAX_FILES entries returns both,
\* a list of MAX_FILES + 1 entries is rejected
C32_Witness ==
    /\ Mounted
    /\ Cardinality(UsedSlots(inode_table)) > 1
    /\ ListRet(Cur, Buf, MAX_FILES) = Cardinality(UsedSlots(inode_table))
    /\ ListRet(Cur, Buf, MAX_FILES + 1) = -1
    /\ ListRet(Cur, NULL, 1) = -1
    /\ ListRet(Cur, Buf, 0) = -1

\* C33: file isolation: a successful fs_write(name, ...) of any accepted size
\* or fs_delete(name) leaves the used flag, name, size and block pointers of
\* every other used inode unchanged, and the content read from every other
\* file unchanged.
C33_FileIsolation ==
    Mounted =>
        \A n \in Names :
            LET idx == FindInode(inode_table, n)
                Same(s1) ==
                    \A i \in Slots :
                        (i # idx /\ inode_table[i].used # 0) =>
                            /\ s1.tbl[i] = inode_table[i]
                            /\ ReadBytes(s1, inode_table[i].name, Buf, MaxAccepted)
                                  = ReadBytes(Cur, inode_table[i].name, Buf, MaxAccepted)
            IN /\ DeleteRet(Cur, n) = 0 => Same(DeleteR(Cur, n))
               /\ \A d \in Patterns, z \in 1 .. MaxAccepted, t \in TailOutcomes :
                     WriteRet(Cur, n, d, z) = 0 => Same(WriteR(Cur, n, d, z, t))

\* C34: bitmap and inode table agree: in every state reachable from a formatted
\* image a block b >= 10 is marked used in the bitmap if and only if exactly
\* one pointer slot of exactly one used inode holds b, and unused inodes hold
\* no non-zero block pointer.
C34_BitmapMatchesTable ==
    Mounted =>
        /\ \A b \in DataBlocks :
              block_bitmap[b] <=>
                  Cardinality({p \in PointerSlots : inode_table[p[1]].blocks[p[2]] = b}) = 1
        /\ \A i \in Slots :
              inode_table[i].used = 0 => \A j \in BlockSlots : inode_table[i].blocks[j] = 0

\* C35: the space check of fs_write compares the needed blocks with
\* free_blocks as it stands before the file's own blocks are released:
\* rewriting a file that holds k blocks with data needing n blocks, where
\* free_blocks < n <= free_blocks + k, returns -2 and the file keeps its old
\* content, although the write would fit once the old blocks were released.
C35_SpaceCheckBeforeRelease ==
    Mounted =>
        \A n \in Names, d \in Patterns, z \in 1 .. MaxAccepted, t \in TailOutcomes :
            (/\ Holds(Cur, n)
             /\ sb.free_blocks < NeededBlocks(z)
             /\ NeededBlocks(z) <= sb.free_blocks + PointerCount(InodeOf(Cur, n))) =>
                /\ WriteRet(Cur, n, d, z) = -2
                /\ WriteR(Cur, n, d, z, t) = Cur
                /\ ReadBytes(WriteR(Cur, n, d, z, t), n, Buf, MaxAccepted)
                      = ReadBytes(Cur, n, Buf, MaxAccepted)

\* no block is free and a file holds two: rewriting it with one byte, which
\* would fit in one of its own blocks, is refused
C35_Witness ==
    /\ Mounted
    /\ sb.free_blocks = 0
    /\ \A b \in DataBlocks : block_bitmap[b]
    /\ \E n \in Names :
          /\ Holds(Cur, n)
          /\ PointerCount(InodeOf(Cur, n)) = NeededBlocks(BLOCK_SIZE + 1)
          /\ InodeOf(Cur, n).size = BLOCK_SIZE + 1
          /\ WriteRet(Cur, n, 2, 1) = -2
          /\ ReadBytes(WriteR(Cur, n, 2, 1, "absorbed"), n, Buf, MaxAccepted)
                = DataOf(1, BLOCK_SIZE + 1)

====
